---- MODULE Spec2Model ----
(***************************************************************************)
(* The Hasher of Core/Source/Hash: a C-linkage wrapper (Hash.h, Hash.cpp)  *)
(* around a streaming 128-bit hash (class SpookyHash, SpookyV2.h).         *)
(*                                                                         *)
(* Hash.h and Hash.cpp are modelled from their code.  SpookyV2.h is not    *)
(* among the sources; SpookyInit, SpookyUpdate, SpookyFinal and what they  *)
(* use are modelled from the design specification: a block buffer that is  *)
(* folded into a few running-state words when it fills, and a read-only    *)
(* finalisation that pads the leftover bytes with their count.             *)
(***************************************************************************)
EXTENDS Integers, Sequences, FiniteSets, TLC

VARIABLES
    hasher,       \* the caller's Hasher storage, seen as the SpookyHash it holds
    out,          \* what the last call wrote through hash1 and hash2, if it has them
    lastOp,       \* "none" before Hasher_Init, then the kind of the last call
    calls,        \* history: the Mix calls since the last Hasher_Init, <<name, args>>
    nCalls,       \* history: number of Mix calls made on this storage so far
    inits,        \* history: number of Hasher_Init calls so far
    finals,       \* history: consecutive Hasher_Final calls just made (saturates at 2)
    interleaved   \* history: a Hasher_Final was followed by a Mix since the last Init

vars == <<hasher, out, lastOp, calls, nCalls, inits, finals, interleaved>>

---------------------------------------------------------------------------
(* Bounds of the model. *)

\* bytes per block of the modelled algorithm
BlockSize == 4
\* bits per running-state word of the modelled algorithm
WordBits == 20
\* Mix calls made on one storage
MaxCalls == 2
\* Hasher_Init calls made on one storage
MaxInits == 2

WordMod == 2 ^ WordBits

Min(a, b) == IF a < b THEN a ELSE b

---------------------------------------------------------------------------
(* Inputs. *)

UInt8Inputs  == {0, 171}
Int8Inputs   == {-1}
UInt16Inputs == {258}
Int16Inputs  == {-2}
UInt32Inputs == {16909060}
Int32Inputs  == {-3}
UInt64Inputs == {2147483647}
Int64Inputs  == {-4}
PairInputs   == {<<5, 6>>}

\* values the equivalence properties are tried on from every reachable state
UInt16Values == {258, 65535}
Int16Values  == {-32768, -2}
UInt32Values == {16909060, 2147483647}
Int32Values  == {-16909060, -1}
UInt64Values == {16909060}
Int64Values  == {-2147483647}
PairValues   == {<<7, 16909060>>, <<2147483647, 0>>}

\* seed pairs a caller may want a session to start from
SeedPairs == {<<0, 803123>>, <<1, 803123>>}

---------------------------------------------------------------------------
(* The object representation of a scalar: what Update reads through        *)
(* &value for sizeof(value) bytes on the supported (little-endian,         *)
(* two's-complement) hosts.                                                *)

RECURSIVE ObjectBytes(_, _)
ObjectBytes(value, size) ==
    IF size = 0 THEN <<>>
    ELSE <<value % 256>> \o ObjectBytes(value \div 256, size - 1)

---------------------------------------------------------------------------
(* class SpookyHash, from the design specification.                        *)
(*                                                                         *)
(* A hasher is a record:                                                   *)
(*   state        the running-state words (two lanes)                      *)
(*   buffer       the pending-byte buffer, BlockSize bytes                 *)
(*   byteCount    how many bytes of the buffer are pending                 *)
(*   totalLength  bytes mixed so far                                       *)
(*   seeds        the seed pair given to Init                              *)
(*   folded       history: the bytes folded into state since Init, in order*)

Rot(x, k) == ((x * (2 ^ k)) % WordMod) + (x \div (2 ^ (WordBits - k)))

\* one byte folded into the two lanes
MixByte(s, b) ==
    LET a == Rot((s[1] + b + 1) % WordMod, 7)
        c == (s[2] * 33 + a) % WordMod
    IN  <<c, (a + Rot(c, 3)) % WordMod>>

\* a block folded into the running state
RECURSIVE Mix(_, _)
Mix(data, s) ==
    IF data = <<>> THEN s ELSE Mix(Tail(data), MixByte(s, Head(data)))

\* the leftover bytes, zero padded, with their count in the block's last byte
PaddedBlock(h) ==
    [i \in 1..BlockSize |->
        IF i <= h.byteCount THEN h.buffer[i]
        ELSE IF i = BlockSize THEN h.byteCount ELSE 0]

\* the final mixing: the padded block, the length, and extra rounds
End(data, length, s) ==
    LET t == Mix(data, s)
        u == <<(t[1] + length) % WordMod, t[2]>>
    IN  Mix(<<0, 0, 0>>, u)

SpookyInit(h, seed1, seed2) ==
    [h EXCEPT !.state = <<seed1 % WordMod, seed2 % WordMod>>,
              !.byteCount = 0,
              !.totalLength = 0,
              !.seeds = <<seed1, seed2>>,
              !.folded = <<>>]

\* SpookyUpdate gone wrong: a full buffer is folded only when the next byte comes
RECURSIVE SpookyUpdate_LazyFlush(_, _)
SpookyUpdate_LazyFlush(h, message) ==
    IF message = <<>> THEN h
    ELSE
        LET full == h.byteCount >= BlockSize
            h0   == IF full THEN [h EXCEPT !.state = Mix(h.buffer, @),
                                           !.byteCount = 0,
                                           !.folded = @ \o h.buffer]
                    ELSE h
        IN  SpookyUpdate_LazyFlush(
                [h0 EXCEPT !.buffer[h0.byteCount + 1] = Head(message),
                           !.byteCount = @ + 1,
                           !.totalLength = @ + 1],
                Tail(message))

RECURSIVE SpookyUpdate(_, _)
SpookyUpdate(h, message) ==
    IF message = <<>> THEN h
    ELSE
        LET take == Min(BlockSize - h.byteCount, Len(message))
            buf  == [i \in 1..BlockSize |->
                        IF h.byteCount < i /\ i <= h.byteCount + take
                        THEN message[i - h.byteCount] ELSE h.buffer[i]]
            rest == SubSeq(message, take + 1, Len(message))
            h1   == [h EXCEPT !.buffer = buf,
                              !.byteCount = @ + take,
                              !.totalLength = @ + take]
        IN  IF h1.byteCount < BlockSize THEN SpookyUpdate(h1, rest)
            ELSE SpookyUpdate([h1 EXCEPT !.state = Mix(buf, @),
                                         !.byteCount = 0,
                                         !.folded = @ \o buf], rest)

SpookyFinal(h) == End(PaddedBlock(h), h.totalLength, h.state)

---------------------------------------------------------------------------
(* Hash.cpp *)

\* the seeds Hasher_Init passes
Seed1 == 0
Seed2 == 803123

\* Hasher_Init gone wrong: the seeds in the other order
Init_Hasher_SeedsSwapped(h) == SpookyInit(h, Seed2, Seed1)

\* Hasher_Init gone wrong: a copy of the storage is initialised, not the storage
Init_Hasher_OnCopy(h) == h

Init_Hasher(h) == SpookyInit(h, Seed1, Seed2)

\* Hasher_Mix_UInt8 gone wrong: the value is passed as the length
Mix_UInt8_LengthIsValue(h, value) ==
    SpookyUpdate(h, SubSeq(ObjectBytes(value, 1), 1, Min(value, 1)))

Reverse(bytes) == [i \in 1..Len(bytes) |-> bytes[Len(bytes) + 1 - i]]

\* Hasher_Mix_UInt32 gone wrong: the value is byte-swapped (network order) first
Mix_UInt32_BigEndian(h, value) == SpookyUpdate(h, Reverse(ObjectBytes(value, 4)))

\* Hasher_Mix_UInt64_2 gone wrong: the array is filled in the other order
Mix_UInt64_2_Swapped(h, hash1, hash2) ==
    SpookyUpdate(h, ObjectBytes(hash2, 8) \o ObjectBytes(hash1, 8))

\* Hasher_Mix_UInt64_2 gone wrong: sizeof(hash1) for sizeof(both)
Mix_UInt64_2_FirstOnly(h, hash1, hash2) ==
    SpookyUpdate(h, SubSeq(ObjectBytes(hash1, 8) \o ObjectBytes(hash2, 8), 1, 8))

Mix_UInt8(h, value)  == SpookyUpdate(h, ObjectBytes(value, 1))
Mix_UInt16(h, value) == SpookyUpdate(h, ObjectBytes(value, 2))
Mix_UInt32(h, value) == SpookyUpdate(h, ObjectBytes(value, 4))
Mix_UInt64(h, value) == SpookyUpdate(h, ObjectBytes(value, 8))
Mix_Int8(h, value)   == SpookyUpdate(h, ObjectBytes(value, 1))
Mix_Int16(h, value)  == SpookyUpdate(h, ObjectBytes(value, 2))
Mix_Int32(h, value)  == SpookyUpdate(h, ObjectBytes(value, 4))
Mix_Int64(h, value)  == SpookyUpdate(h, ObjectBytes(value, 8))
Mix_UInt64_2(h, hash1, hash2) ==
    LET both == ObjectBytes(hash1, 8) \o ObjectBytes(hash2, 8)
    IN  SpookyUpdate(h, both)

\* Hasher_Final gone wrong: the padding is written into the stored buffer
Final_PadInPlace(h) ==
    LET d == SpookyFinal(h)
    IN  [self |-> [h EXCEPT !.buffer = PaddedBlock(h)], hash1 |-> d[1], hash2 |-> d[2]]

\* Hasher_Final gone wrong: the finalised words are stored back as the running state
Final_StoresBack(h) ==
    LET d == SpookyFinal(h)
    IN  [self |-> [h EXCEPT !.state = d], hash1 |-> d[1], hash2 |-> d[2]]

\* Hasher_Final gone wrong: the leftover bytes are folded and dropped
Final_Consuming(h) ==
    LET d == SpookyFinal(h)
    IN  [self |-> [h EXCEPT !.state = Mix(PaddedBlock(h), @), !.byteCount = 0],
         hash1 |-> d[1], hash2 |-> d[2]]

\* the storage after the call (it is taken as const) and the two outputs
Final(h) ==
    LET d == SpookyFinal(h)
    IN  [self |-> h, hash1 |-> d[1], hash2 |-> d[2]]

---------------------------------------------------------------------------
(* The state machine: one caller, one storage. *)

\* contents the storage may hold before Hasher_Init: zeroed, or anything
Zeroed ==
    [state |-> <<0, 0>>, buffer |-> [i \in 1..BlockSize |-> 0], byteCount |-> 0,
     totalLength |-> 0, seeds |-> <<0, 0>>, folded |-> <<>>]

Garbage ==
    [state |-> <<48879, 57005>>, buffer |-> [i \in 1..BlockSize |-> 205],
     byteCount |-> 2, totalLength |-> 9, seeds |-> <<9, 9>>, folded |-> <<>>]

Storages == {Zeroed, Garbage}

\* the outputs of a call that has no output parameters
Unwritten == <<-1, -1>>

Init ==
    /\ hasher \in Storages
    /\ out = Unwritten
    /\ lastOp = "none"
    /\ calls = <<>>
    /\ nCalls = 0
    /\ inits = 0
    /\ finals = 0
    /\ interleaved = FALSE

Hasher_Init ==
    /\ inits < MaxInits
    /\ hasher' = Init_Hasher(hasher)
    /\ lastOp' = "Init"
    /\ calls' = <<>>
    /\ inits' = inits + 1
    /\ finals' = 0
    /\ interleaved' = FALSE
    /\ out' = Unwritten
    /\ UNCHANGED nCalls

\* what every Mix call does to the history
Mixed(name, args, after) ==
    /\ lastOp # "none"
    /\ nCalls < MaxCalls
    /\ hasher' = after
    /\ lastOp' = "Mix"
    /\ calls' = Append(calls, <<name, args>>)
    /\ nCalls' = nCalls + 1
    /\ finals' = 0
    /\ interleaved' = (interleaved \/ finals > 0)
    /\ out' = Unwritten
    /\ UNCHANGED inits

Hasher_Mix_UInt8 ==
    \E value \in UInt8Inputs : Mixed("UInt8", <<value>>, Mix_UInt8(hasher, value))

Hasher_Mix_UInt16 ==
    \E value \in UInt16Inputs : Mixed("UInt16", <<value>>, Mix_UInt16(hasher, value))

Hasher_Mix_UInt32 ==
    \E value \in UInt32Inputs : Mixed("UInt32", <<value>>, Mix_UInt32(hasher, value))

Hasher_Mix_UInt64 ==
    \E value \in UInt64Inputs : Mixed("UInt64", <<value>>, Mix_UInt64(hasher, value))

Hasher_Mix_Int8 ==
    \E value \in Int8Inputs : Mixed("Int8", <<value>>, Mix_Int8(hasher, value))

Hasher_Mix_Int16 ==
    \E value \in Int16Inputs : Mixed("Int16", <<value>>, Mix_Int16(hasher, value))

Hasher_Mix_Int32 ==
    \E value \in Int32Inputs : Mixed("Int32", <<value>>, Mix_Int32(hasher, value))

Hasher_Mix_Int64 ==
    \E value \in Int64Inputs : Mixed("Int64", <<value>>, Mix_Int64(hasher, value))

Hasher_Mix_UInt64_2 ==
    \E both \in PairInputs :
        Mixed("UInt64_2", both, Mix_UInt64_2(hasher, both[1], both[2]))

Hasher_Final ==
    /\ lastOp # "none"
    /\ LET r == Final(hasher)
       IN  /\ hasher' = r.self
           /\ out' = <<r.hash1, r.hash2>>
    /\ lastOp' = "Final"
    /\ finals' = Min(finals + 1, 2)
    /\ UNCHANGED <<calls, nCalls, inits, interleaved>>

Next ==
    \/ Hasher_Init
    \/ Hasher_Mix_UInt8
    \/ Hasher_Mix_UInt16
    \/ Hasher_Mix_UInt32
    \/ Hasher_Mix_UInt64
    \/ Hasher_Mix_Int8
    \/ Hasher_Mix_Int16
    \/ Hasher_Mix_Int32
    \/ Hasher_Mix_Int64
    \/ Hasher_Mix_UInt64_2
    \/ Hasher_Final

Spec == Init /\ [][Next]_vars

---------------------------------------------------------------------------
(* What the properties are stated with. *)

\* byte i (from 0) of the base-256 expansion of a natural number
RECURSIVE Digit(_, _)
Digit(u, i) == IF i = 0 THEN u % 256 ELSE Digit(u \div 256, i - 1)

\* the little-endian two's-complement representation of v in n bytes:
\* for v < 0 it is the bitwise complement of -v - 1
TwosComplementLE(v, n) ==
    [i \in 1..n |-> IF v >= 0 THEN Digit(v, i - 1) ELSE 255 - Digit(-v - 1, i - 1)]

\* sequential 8-bit mixes of the given bytes, in order
RECURSIVE MixBytes(_, _)
MixBytes(h, bytes) ==
    IF bytes = <<>> THEN h ELSE MixBytes(Mix_UInt8(h, Head(bytes)), Tail(bytes))

Width(name) ==
    CASE name \in {"UInt8", "Int8"} -> 1
      [] name \in {"UInt16", "Int16"} -> 2
      [] name \in {"UInt32", "Int32"} -> 4
      [] name \in {"UInt64", "Int64", "UInt64_2"} -> 8

\* the bytes of the values of one call, in argument order
RECURSIVE ArgBytes(_, _)
ArgBytes(args, n) ==
    IF args = <<>> THEN <<>>
    ELSE TwosComplementLE(Head(args), n) \o ArgBytes(Tail(args), n)

\* the bytes of all mixed values, in call order
RECURSIVE BytesOf(_)
BytesOf(cs) ==
    IF cs = <<>> THEN <<>>
    ELSE ArgBytes(Head(cs)[2], Width(Head(cs)[1])) \o BytesOf(Tail(cs))

\* the same call made on another hasher
Apply(h, call) ==
    LET v == call[2][1]
    IN  CASE call[1] = "UInt8"  -> Mix_UInt8(h, v)
          [] call[1] = "UInt16" -> Mix_UInt16(h, v)
          [] call[1] = "UInt32" -> Mix_UInt32(h, v)
          [] call[1] = "UInt64" -> Mix_UInt64(h, v)
          [] call[1] = "Int8"   -> Mix_Int8(h, v)
          [] call[1] = "Int16"  -> Mix_Int16(h, v)
          [] call[1] = "Int32"  -> Mix_Int32(h, v)
          [] call[1] = "Int64"  -> Mix_Int64(h, v)
          [] call[1] = "UInt64_2" -> Mix_UInt64_2(h, v, call[2][2])

RECURSIVE Replay(_, _)
Replay(h, cs) == IF cs = <<>> THEN h ELSE Replay(Apply(h, Head(cs)), Tail(cs))

\* the digest of a byte sequence mixed in one piece, with no Final in between
DigestOf(seeds, bytes) ==
    SpookyFinal(SpookyUpdate(SpookyInit(Zeroed, seeds[1], seeds[2]), bytes))

Pending(h) == SubSeq(h.buffer, 1, h.byteCount)

Initialised == lastOp # "none"

\* the states Hasher_Init and the Mix calls leave; a Hasher_Final call leaves
\* the hasher of the state it was made in (C1)
Mixing == lastOp \in {"Init", "Mix"}

LastCall == calls[Len(calls)]

\* the last call's bytes lie on both sides of a block flush
Straddled ==
    /\ lastOp = "Mix"
    /\ hasher.folded # <<>>
    /\ 0 < hasher.byteCount
    /\ hasher.byteCount < Width(LastCall[1]) * Len(LastCall[2])

ProbeBytes == {0, 1, 255}

---------------------------------------------------------------------------
(* The properties. *)

\* C1: Hasher_Final leaves every component of the stored hasher as it was.
C1_FinalDoesNotMutate == [][lastOp' = "Final" => hasher' = hasher]_vars

C1_Witness ==
    /\ lastOp = "Final"
    /\ hasher.folded # <<>>
    /\ 0 < hasher.byteCount /\ hasher.byteCount < BlockSize - 1

\* C2: from every hasher state reached after Hasher_Init, a 16-, 32- or 64-bit
\* mix, signed or unsigned, gives the state that 8-bit mixes of the value's
\* two's-complement little-endian bytes, in that order, give.
C2_ScalarMixIsByteStream ==
    Mixing =>
        /\ \A v \in UInt16Values :
              Mix_UInt16(hasher, v) = MixBytes(hasher, TwosComplementLE(v, 2))
        /\ \A v \in Int16Values :
              Mix_Int16(hasher, v) = MixBytes(hasher, TwosComplementLE(v, 2))
        /\ \A v \in UInt32Values :
              Mix_UInt32(hasher, v) = MixBytes(hasher, TwosComplementLE(v, 4))
        /\ \A v \in Int32Values :
              Mix_Int32(hasher, v) = MixBytes(hasher, TwosComplementLE(v, 4))
        /\ \A v \in UInt64Values :
              Mix_UInt64(hasher, v) = MixBytes(hasher, TwosComplementLE(v, 8))
        /\ \A v \in Int64Values :
              Mix_Int64(hasher, v) = MixBytes(hasher, TwosComplementLE(v, 8))

C2_Witness ==
    /\ Straddled
    /\ LastCall[1] \in {"UInt32", "Int32"}
    /\ hasher = MixBytes(Replay(Init_Hasher(Zeroed), SubSeq(calls, 1, Len(calls) - 1)),
                         TwosComplementLE(LastCall[2][1], 4))

\* C3: from every hasher state reached after Hasher_Init, the paired mix of two
\* values gives the state that mixing the first and then the second as single
\* 64-bit values gives.
C3_PairIsTwoSingles ==
    Mixing =>
        \A both \in PairValues :
            Mix_UInt64_2(hasher, both[1], both[2])
                = Mix_UInt64(Mix_UInt64(hasher, both[1]), both[2])

C3_Witness ==
    /\ Straddled
    /\ LastCall[1] = "UInt64_2"
    /\ Len(hasher.folded) >= 16

C5_DigestOfSeedsAndBytes ==
    lastOp = "Final" => out = DigestOf(hasher.seeds, BytesOf(calls))

C5_Witness ==
    /\ lastOp = "Final"
    /\ interleaved
    /\ Len(calls) >= 2
    /\ hasher.folded # <<>>

\* C6: a Hasher_Final right after a Hasher_Final writes the pair again.
C6_FinalTwice == [][(lastOp = "Final" /\ lastOp' = "Final") => out' = out]_vars

C6_Witness ==
    /\ finals = 2
    /\ 0 < hasher.byteCount
    /\ out # Unwritten

C8_LengthSensitive ==
    Mixing =>
        \A x \in ProbeBytes : PaddedBlock(Mix_UInt8(hasher, x)) # PaddedBlock(hasher)

C8_Witness ==
    /\ lastOp = "Mix"
    /\ Len(calls) >= 2
    /\ LastCall = <<"UInt8", <<0>>>>
    /\ PaddedBlock(hasher) #
           PaddedBlock(Replay(Init_Hasher(Zeroed), SubSeq(calls, 1, Len(calls) - 1)))

\* C9: the folded bytes followed by the pending bytes are the little-endian
\* bytes of all mixed values in call order, and the total length counts them.
C9_NoByteLost ==
    Initialised =>
        /\ hasher.folded \o Pending(hasher) = BytesOf(calls)
        /\ hasher.totalLength = Len(BytesOf(calls))

C9_Witness ==
    /\ Straddled
    /\ Len(calls) >= 2
    /\ Len(hasher.folded) + hasher.byteCount = Len(BytesOf(calls))
    /\ Len(hasher.folded) = BlockSize

\* C10: the pair Hasher_Final returns is the one the same Mix calls give on
\* any other storage after Hasher_Init, whatever either storage held before.
C10_InitErasesStorage ==
    lastOp = "Final" =>
        \A g \in Storages :
            LET r == Final(Replay(Init_Hasher(g), calls))
            IN  out = <<r.hash1, r.hash2>>

C10_Witness ==
    /\ lastOp = "Final"
    /\ inits = 2
    /\ nCalls > Len(calls)
    /\ calls # <<>>

====
